---- MODULE Spec2Model ----
(***************************************************************************)
(* EchoNote audio processor (backend/src/python_scripts/audio_processor.py)*)
(* The command line entry point main() and the seven-step pipeline of      *)
(* AudioProcessor.process().                                               *)
(*                                                                         *)
(* Amplitudes are fixed-point numbers in thousandths: 1000 stands for 1.0, *)
(* 891 for 0.891.  A signal is a sequence of such samples; NaN is a        *)
(* reserved value standing for a not-a-number sample.                      *)
(***************************************************************************)
EXTENDS Integers, Sequences, FiniteSets, TLC

----------------------------------------------------------------------------
(* Program constants *)

TARGET_SAMPLE_RATE == 16000

\* NOISE_REDUCTION_STRENGTH = 0.8, in thousandths
NOISE_REDUCTION_STRENGTH == 800

\* SPEECH_FREQ_MAX = 8000: the upper edge of the bandpass filter, in Hz
SPEECH_FREQ_MAX == 8000

\* hop_length=512 of every librosa.stft / trim / split call
hop_length == 512

\* top_db=30 of trim and split: a power ratio of 10^3
top_db_power_ratio == 1000

\* target_rms = 0.1 and the 0.95 peak ceiling of normalize_volume
target_rms == 100

normalize_peak_limit == 950

\* the 0.891 (-1 dB) peak of final_normalize_and_save
final_peak == 891

\* np.clip(self.audio, -1.0, 1.0)
clip_limit == 1000

\* pre_emphasis = 0.97, in hundredths
pre_emphasis == 97

\* threshold = 0.1 and ratio = 3.0 of apply_compression
compression_threshold == 100

compression_ratio == 3

\* np.percentile(magnitude, 20, ...) and np.percentile(signal_power, 10, ...)
gate_percentile == 20

wiener_percentile == 10

\* threshold = noise_floor * 2.0
gate_threshold_factor == 2

\* len(sys.argv) != 3
EXPECTED_ARGC == 3

----------------------------------------------------------------------------
(* Bounds of the model *)

\* the decoded input holds at most MaxBlocks whole hop-sized blocks
MaxBlocks == 2

\* len(sys.argv) ranges over 1..MaxArgc
MaxArgc == 4

----------------------------------------------------------------------------
(* Arithmetic helpers *)

NaN == 0 - 1000000000

Abs(x) == IF x < 0 THEN 0 - x ELSE x

SetMax(S) == CHOOSE m \in S : \A y \in S : y <= m

SetMin(S) == CHOOSE m \in S : \A y \in S : m <= y

\* a * num / den rounded toward zero; NaN stays NaN
Scaled(a, num, den) ==
    IF a = NaN THEN NaN
    ELSE IF (a * num) < 0 THEN 0 - ((0 - (a * num)) \div den)
    ELSE (a * num) \div den

Range(f) == {f[i] : i \in DOMAIN f}

HasNaN(x) == \E i \in DOMAIN x : x[i] = NaN

\* the function f over 1..n as a sequence
AsSeq(f) == f \o << >>

Zeros(n) == AsSeq([i \in 1..n |-> 0])

RECURSIVE SumSq(_, _, _)
\* sum of x[i]^2 for i in lo..hi (divide and conquer)
SumSq(x, lo, hi) ==
    IF lo > hi THEN 0
    ELSE IF lo = hi THEN x[lo] * x[lo]
    ELSE SumSq(x, lo, (lo + hi) \div 2) + SumSq(x, ((lo + hi) \div 2) + 1, hi)

RECURSIVE Sum(_, _, _)
\* sum of x[i] for i in lo..hi (divide and conquer)
Sum(x, lo, hi) ==
    IF lo > hi THEN 0
    ELSE IF lo = hi THEN x[lo]
    ELSE Sum(x, lo, (lo + hi) \div 2) + Sum(x, ((lo + hi) \div 2) + 1, hi)

RECURSIVE SqrtSearch(_, _, _)
\* the r in lo..hi with r*r <= n < (r+1)*(r+1), by bisection
SqrtSearch(n, lo, hi) ==
    IF lo >= hi THEN lo
    ELSE IF (((lo + hi + 1) \div 2) * ((lo + hi + 1) \div 2)) <= n
         THEN SqrtSearch(n, (lo + hi + 1) \div 2, hi)
         ELSE SqrtSearch(n, lo, ((lo + hi + 1) \div 2) - 1)

\* floor of the square root of n >= 0 (46340 is the largest root of a
\* 32-bit number)
ISqrt(n) == SqrtSearch(n, 0, IF n < 46340 THEN n ELSE 46340)

\* the elements of a finite set of integers in increasing order
SortedSeq(S) ==
    AsSeq([k \in 1..Cardinality(S) |->
        CHOOSE v \in S : Cardinality({w \in S : w < v}) = k - 1])

\* the k-th smallest (k >= 1) of the values f[i], counted with repetitions
KthSmallest(f, k) ==
    CHOOSE v \in Range(f) :
        /\ Cardinality({i \in DOMAIN f : f[i] < v}) < k
        /\ Cardinality({i \in DOMAIN f : f[i] <= v}) >= k

\* np.percentile(values, q) with linear interpolation, times 100 (exact)
Percentile100(f, q) ==
    LET n   == Len(f)
        pos == q * (n - 1)
        lo  == (pos \div 100) + 1
        rem == pos % 100
        hi  == IF lo < n THEN lo + 1 ELSE lo
    IN  (KthSmallest(f, lo) * (100 - rem)) + (KthSmallest(f, hi) * rem)

\* np.abs(x).max(): NaN when a sample is NaN
Peak(x) == IF HasNaN(x) THEN NaN ELSE SetMax({Abs(x[i]) : i \in DOMAIN x})

\* x[start:end] of numpy (0-based, end exclusive)
Slice(x, start, end) == AsSeq([i \in 1..(end - start) |-> x[start + i]])

----------------------------------------------------------------------------
(* Frames: the signal cut into blocks of hop_length samples.  The framing  *)
(* of librosa (stft, trim, split) is modelled by these blocks, one         *)
(* magnitude per block.                                                     *)

\* whole blocks, the number of frames the inverse transform returns
NumBlocks(x) == Len(x) \div hop_length

\* blocks including a last partial one, the frames trim and split look at
NumFrames(x) == (Len(x) + hop_length - 1) \div hop_length

FrameLo(t) == ((t - 1) * hop_length) + 1

FrameHi(x, t) == IF t * hop_length < Len(x) THEN t * hop_length ELSE Len(x)

FrameOf(i) == ((i - 1) \div hop_length) + 1

\* mean square of frame t (librosa.feature.rms squared)
FramePower(x, t) ==
    SumSq(x, FrameLo(t), FrameHi(x, t)) \div ((FrameHi(x, t) - FrameLo(t)) + 1)

\* np.abs(stft) of frame t
Magnitude(x, t) == SetMax({Abs(x[i]) : i \in FrameLo(t)..FrameHi(x, t)})

Magnitudes(x) == AsSeq([t \in 1..NumBlocks(x) |-> Magnitude(x, t)])

RECURSIVE FrameSumSq(_, _, _)
\* sum over the frames 1..t of (sum of squares of the frame) \div den
FrameSumSq(x, t, den) ==
    IF t = 0 THEN 0
    ELSE (SumSq(x, FrameLo(t), FrameHi(x, t)) \div den) + FrameSumSq(x, t - 1, den)

\* np.mean(x ** 2), in millionths (the division is done frame by frame)
MeanSq(x) == FrameSumSq(x, NumFrames(x), Len(x))

\* np.sqrt(np.mean(x ** 2)), in thousandths
Rms(x) == ISqrt(MeanSq(x))

----------------------------------------------------------------------------
(* load_audio *)

\* librosa.resample(audio, orig_sr, target_sr): ceil(n * target / orig)
\* samples, each the input sample nearest before it in time (sample rates
\* are in units of 100 Hz inside the products)
Resample(samples, orig_sr, target_sr) ==
    AsSeq([i \in 1..(((Len(samples) * (target_sr \div 100)) + ((orig_sr \div 100) - 1))
               \div (orig_sr \div 100)) |->
        samples[(((i - 1) * (orig_sr \div 100)) \div (target_sr \div 100)) + 1]])

\* the signal load_audio stores: mono, resampled to 16 kHz when needed
LoadedAudio(file) ==
    IF file.sr # TARGET_SAMPLE_RATE
    THEN Resample(file.samples, file.sr, TARGET_SAMPLE_RATE)
    ELSE file.samples

\* the rate of the file kept as it was decoded
FileRate(file) == file.sr

\* self.sample_rate = TARGET_SAMPLE_RATE
LoadedRate(file) == TARGET_SAMPLE_RATE

\* len(audio) / sample_rate as the exact fraction
DurationOf(x, rate) == [num |-> Len(x), den |-> rate]

----------------------------------------------------------------------------
(* normalize_volume *)

\* np.abs(self.audio).max() raises ValueError on an empty array
NormalizeRaises(x) == Len(x) = 0

\* the "light" normalization: no RMS target
NoRmsTarget(x) == x

\* audio * target_rms: the division by the measured RMS is left out
ScaledByTarget(x) == AsSeq([i \in DOMAIN x |-> Scaled(x[i], target_rms, 1000)])

RECURSIVE FrameSumSqRem(_, _, _)
\* sum over the frames 1..t of (sum of squares of the frame) % den
FrameSumSqRem(x, t, den) ==
    IF t = 0 THEN 0
    ELSE (SumSq(x, FrameLo(t), FrameHi(x, t)) % den) + FrameSumSqRem(x, t - 1, den)

\* np.mean(self.audio ** 2) in hundredths of a millionth, rounded down (of
\* an empty array: nan, which is not above 0)
MeanSqOfVolume(x) ==
    LET n == Len(x)
        q == FrameSumSq(x, NumFrames(x), n)
        r == FrameSumSqRem(x, NumFrames(x), n)
    IN  IF n = 0 THEN 0
        ELSE (100 * (q + (r \div n))) + ((100 * (r % n)) \div n)

\* rms = np.sqrt(np.mean(self.audio ** 2)) in ten-thousandths: the factor
\* target_rms / rms keeps its digits for a quiet signal
RmsOfVolume(x) == ISqrt(MeanSqOfVolume(x))

\* if rms > 0: audio * (target_rms / rms)
RmsScaled(x) ==
    LET rms == RmsOfVolume(x)
    IN  IF rms > 0
        THEN AsSeq([i \in DOMAIN x |-> Scaled(x[i], 10 * target_rms, rms)])
        ELSE x

\* no peak normalization after the RMS normalization
NoPeakLimit(x) == x

\* peak = np.abs(audio).max(); if peak > 0.95: audio * (0.95 / peak)
PeakLimited(x) ==
    LET peak == Peak(x)
    IN  IF peak > normalize_peak_limit
        THEN AsSeq([i \in DOMAIN x |-> Scaled(x[i], normalize_peak_limit, peak)])
        ELSE x

NormalizedVolume(x) == PeakLimited(RmsScaled(x))

----------------------------------------------------------------------------
(* remove_silence *)

FramePowers(x) == AsSeq([t \in 1..NumFrames(x) |-> FramePower(x, t)])

\* librosa: a frame is non-silent when its power is less than top_db below
\* the loudest frame (both clamped from below, so that in an all-zero
\* signal every frame counts as non-silent)
NonSilent(x) ==
    LET powers == FramePowers(x)
        loudest == SetMax(Range(powers))
    IN  {t \in DOMAIN powers :
            IF loudest = 0 THEN TRUE
            ELSE (top_db_power_ratio * powers[t]) > loudest}

\* the non-silent frames alone, the silent ones between them cut out
VoicedOnly(x) ==
    LET voiced == SortedSeq(NonSilent(x))
    IN  AsSeq([k \in 1..Sum([j \in DOMAIN voiced |->
                                 (FrameHi(x, voiced[j]) - FrameLo(voiced[j])) + 1],
                             1, Len(voiced)) |->
            LET j == CHOOSE f \in DOMAIN voiced :
                        /\ Sum([g \in DOMAIN voiced |->
                                  (FrameHi(x, voiced[g]) - FrameLo(voiced[g])) + 1], 1, f - 1) < k
                        /\ k <= Sum([g \in DOMAIN voiced |->
                                  (FrameHi(x, voiced[g]) - FrameLo(voiced[g])) + 1], 1, f)
            IN  x[(FrameLo(voiced[j]) - 1)
                  + (k - Sum([g \in DOMAIN voiced |->
                                (FrameHi(x, voiced[g]) - FrameLo(voiced[g])) + 1], 1, j - 1))]])

\* librosa.effects.trim: from the first to the last non-silent frame
Trimmed(x) ==
    LET voiced == NonSilent(x)
    IN  IF voiced = {} THEN << >>
        ELSE Slice(x, hop_length * (SetMin(voiced) - 1), FrameHi(x, SetMax(voiced)))

\* the first frames of the maximal runs of non-silent frames
RunStarts(voiced) == {t \in voiced : (t - 1) \notin voiced}

RunEnd(voiced, s) == SetMin({t \in voiced : t >= s /\ (t + 1) \notin voiced})

\* librosa.effects.split: the non-silent intervals [start, end) in samples
SplitIntervals(x) ==
    LET voiced == NonSilent(x)
        starts == SortedSeq(RunStarts(voiced))
    IN  AsSeq([k \in DOMAIN starts |->
            [start |-> hop_length * (starts[k] - 1),
             end   |-> FrameHi(x, RunEnd(voiced, starts[k]))]])

\* int(0.3 * self.sample_rate)
PauseSamples(rate) == (3 * rate) \div 10

RECURSIVE Segments(_, _, _, _)
\* the list built by the loop: each interval followed by a pause
Segments(x, intervals, k, pause) ==
    IF k > Len(intervals) THEN << >>
    ELSE << Slice(x, intervals[k].start, intervals[k].end), Zeros(pause) >>
         \o Segments(x, intervals, k + 1, pause)

RECURSIVE Concatenate(_)
Concatenate(segs) ==
    IF segs = << >> THEN << >> ELSE Head(segs) \o Concatenate(Tail(segs))

\* the list as the loop built it, the pause after the last interval included
KeepAll(segs) == segs

\* segments[:-1]
DropLast(segs) == SubSeq(segs, 1, Len(segs) - 1)

Resegmented(x, rate) ==
    LET intervals == SplitIntervals(x)
    IN  IF Len(intervals) > 0
        THEN Concatenate(DropLast(Segments(x, intervals, 1, PauseSamples(rate))))
        ELSE x

SilenceRemoved(x, rate) == Resegmented(Trimmed(x), rate)

----------------------------------------------------------------------------
(* apply_spectral_gating *)

\* np.percentile(magnitude, 20, axis=1), times 100
NoiseFloor100(mags) == Percentile100(mags, gate_percentile)

\* threshold = noise_floor * 2.0, times 100
GateThreshold100(mags) == NoiseFloor100(mags) * gate_threshold_factor

\* np.where(magnitude > threshold, 1.0, (magnitude / threshold) ** 2) in
\* thousandths; 0/0 is NaN
SpectralGain(mag, thr100) ==
    IF (100 * mag) > thr100 THEN 1000
    ELSE IF thr100 = 0 THEN NaN
    ELSE ((((100000 * mag) \div thr100) * ((100000 * mag) \div thr100)) \div 1000)

\* magnitude * gain * exp(1j * phase) of one sample: a NaN gain gives NaN
ApplyGain(v, gain) == IF gain = NaN THEN NaN ELSE Scaled(v, gain, 1000)

\* the gain of every frame
SpectralGains(x) ==
    LET mags == Magnitudes(x)
        thr  == GateThreshold100(mags)
    IN  AsSeq([t \in 1..NumBlocks(x) |-> SpectralGain(mags[t], thr)])

\* a forward transform without the padding of center=True has n_fft /
\* hop_length frames less: here, one block less
GatedUncentred(x) ==
    LET gains == SpectralGains(x)
    IN  AsSeq([i \in 1..(hop_length * (NumBlocks(x) - 1)) |->
            ApplyGain(x[i], gains[FrameOf(i)])])

\* librosa.istft(...): hop_length * (frames - 1) samples, the whole blocks
SpectralGated(x) ==
    LET gains == SpectralGains(x)
    IN  AsSeq([i \in 1..(hop_length * NumBlocks(x)) |-> ApplyGain(x[i], gains[FrameOf(i)])])

----------------------------------------------------------------------------
(* apply_advanced_noise_reduction *)

\* the second pass given the strength of the first
SameStrength == NOISE_REDUCTION_STRENGTH

\* NOISE_REDUCTION_STRENGTH * 0.7
NonStationaryStrength == (NOISE_REDUCTION_STRENGTH * 7) \div 10

MeanMagnitude(mags) == Sum(mags, 1, Len(mags)) \div Len(mags)

\* nr.reduce_noise(y, sr, stationary, prop_decrease): same length; the
\* frames below the mean magnitude are taken as noise and lowered by
\* prop_decrease, the samples after the last whole frame likewise; a
\* buffer holding NaN comes back as NaN
ReduceNoise(x, prop_decrease) ==
    IF HasNaN(x) THEN AsSeq([i \in DOMAIN x |-> NaN])
    ELSE LET mags == Magnitudes(x)
             mean == MeanMagnitude(mags)
             n    == NumBlocks(x)
         IN  AsSeq([i \in DOMAIN x |->
                IF FrameOf(i) > n THEN Scaled(x[i], 1000 - prop_decrease, 1000)
                ELSE IF mags[FrameOf(i)] < mean
                     THEN Scaled(x[i], 1000 - prop_decrease, 1000)
                     ELSE x[i]])

\* librosa.stft rejects a buffer that is not finite everywhere
StftRaises(x) == HasNaN(x)

\* signal_power = magnitude ** 2
SignalPower(x) == AsSeq([t \in 1..NumBlocks(x) |-> Magnitude(x, t) * Magnitude(x, t)])

\* np.percentile(signal_power, 10, axis=1), times 100
NoisePower100(x) == Percentile100(SignalPower(x), wiener_percentile)

\* signal_power / (signal_power + noise_power): 0/0 is NaN
WienerGainWithoutEpsilon(sp, np100) ==
    IF (sp + (np100 \div 100)) = 0 THEN NaN
    ELSE (1000 * sp) \div (sp + (np100 \div 100))

\* signal_power / (signal_power + noise_power + 1e-10) in thousandths; the
\* 1e-10 makes 0/0 a 0 and is below the resolution otherwise
WienerGain(sp, np100) ==
    IF (sp + (np100 \div 100)) = 0 THEN 0
    ELSE (1000 * sp) \div (sp + (np100 \div 100))

WienerGains(x) ==
    LET sp    == SignalPower(x)
        np100 == NoisePower100(x)
    IN  AsSeq([t \in 1..NumBlocks(x) |-> WienerGain(sp[t], np100)])

WienerFiltered(x) ==
    LET gains == WienerGains(x)
    IN  AsSeq([i \in 1..(hop_length * NumBlocks(x)) |-> ApplyGain(x[i], gains[FrameOf(i)])])

----------------------------------------------------------------------------
(* enhance_speech *)

\* signal.sosfilt(sos, x) with the 85-8000 Hz band pass: same length, the
\* constant (0 Hz) component removed
BandpassFiltered(x) ==
    IF Len(x) = 0 THEN x
    ELSE LET mean == Scaled(Sum(x, 1, Len(x)), 1, Len(x))
         IN  AsSeq([i \in DOMAIN x |-> x[i] - mean])

\* self.audio[0] raises IndexError on an empty array
PreEmphasisRaises(x) == Len(x) = 0

\* the recurrence run in place: from the third sample on, the sample before
\* has been updated already when it is used
PreEmphasizedInPlace(x) ==
    AsSeq([i \in DOMAIN x |->
        IF i = 1 THEN x[1]
        ELSE IF i = 2 THEN x[2] - Scaled(x[1], pre_emphasis, 100)
        ELSE x[i] - Scaled(x[i - 1] - Scaled(x[i - 2], pre_emphasis, 100),
                           pre_emphasis, 100)])

\* np.append(x[0], x[1:] - pre_emphasis * x[:-1])
PreEmphasized(x) ==
    AsSeq([i \in DOMAIN x |->
        IF i = 1 THEN x[1] ELSE x[i] - Scaled(x[i - 1], pre_emphasis, 100)])

\* window_length = int(0.01 * sample_rate), made odd
WindowLength(rate) ==
    IF (rate \div 100) % 2 = 0 THEN (rate \div 100) + 1 ELSE rate \div 100

\* signal.savgol_filter raises ValueError when the window is longer than
\* the signal
CompressionRaises(x, rate) == Len(x) < WindowLength(rate)

\* np.abs(signal.hilbert(x)) of sample i, the end samples repeated beyond
\* the ends
RawEnvelope(x, i) == Abs(x[IF i < 1 THEN 1 ELSE IF i > Len(x) THEN Len(x) ELSE i])

\* signal.savgol_filter(envelope, window_length, 3), a least-squares cubic
\* smoothing: the five-point cubic filter (-3, 12, 17, 12, -3) / 35 stands
\* for the 161-point one.  Like it, it overshoots at a step of the envelope
\* and falls below zero beside one.
Envelope(x) ==
    AsSeq([i \in DOMAIN x |->
        Scaled((12 * (RawEnvelope(x, i - 1) + RawEnvelope(x, i + 1)))
               + (17 * RawEnvelope(x, i))
               - (3 * (RawEnvelope(x, i - 2) + RawEnvelope(x, i + 2))), 1, 35)])

\* gain = threshold + (envelope - threshold) / ratio, the division by the
\* envelope left out
CompressedEnvelopeAsGain(v, env) ==
    IF env > compression_threshold
    THEN Scaled(v, (compression_threshold * compression_ratio)
                     + (env - compression_threshold),
                compression_ratio * 1000)
    ELSE v

\* a compressor that also lifts what is below the threshold to it
CompressUpward(v, env) ==
    IF env > compression_threshold
    THEN Scaled(v, (compression_threshold * compression_ratio)
                     + (env - compression_threshold),
                compression_ratio * env)
    ELSE IF env > 0 THEN Scaled(v, compression_threshold, env)
    ELSE v

\* gain = 1 where envelope <= threshold, otherwise
\* (threshold + (envelope - threshold) / ratio) / envelope; applied to v
Compress(v, env) ==
    IF env > compression_threshold
    THEN Scaled(v, (compression_threshold * compression_ratio)
                     + (env - compression_threshold),
                compression_ratio * env)
    ELSE v

Compressed(x) ==
    LET env == Envelope(x)
    IN  AsSeq([i \in DOMAIN x |-> Compress(x[i], env[i])])

----------------------------------------------------------------------------
(* final_normalize_and_save *)

\* np.abs(self.audio).max() raises ValueError on an empty array
FinalRaises(x) == Len(x) = 0

\* the peak scaled to full scale instead of -1 dB
ScaledToFullScale(x) ==
    LET peak == Peak(x)
    IN  IF peak # NaN /\ peak > 0
        THEN AsSeq([i \in DOMAIN x |-> Scaled(x[i], clip_limit, peak)])
        ELSE x

\* if peak > 0: audio * (0.891 / peak)   (a NaN peak compares false)
PeakNormalized(x) ==
    LET peak == Peak(x)
    IN  IF peak # NaN /\ peak > 0
        THEN AsSeq([i \in DOMAIN x |-> Scaled(x[i], final_peak, peak)])
        ELSE x

ClipSample(v) ==
    IF v = NaN THEN NaN
    ELSE IF v > clip_limit THEN clip_limit
    ELSE IF v < 0 - clip_limit THEN 0 - clip_limit
    ELSE v

\* np.clip(self.audio, -1.0, 1.0)
Clipped(x) == AsSeq([i \in DOMAIN x |-> ClipSample(x[i])])

FinalNormalized(x) == Clipped(PeakNormalized(x))

----------------------------------------------------------------------------
(* calculate_metrics *)

\* librosa.zero_crossings: the sign changes between neighbours
ZeroCrossings(x) ==
    Cardinality({i \in 2..Len(x) : (x[i] < 0) # (x[i - 1] < 0)})

\* librosa.feature.spectral_flatness averaged, in thousandths: 1000 for a
\* flat spectrum (also for silence), lower the more the frames differ
SpectralFlatness(x) ==
    LET mags == Range(Magnitudes(x))
    IN  IF NumBlocks(x) = 0 \/ SetMax(mags) = 0 THEN 1000
        ELSE (1000 * SetMin(mags)) \div SetMax(mags)

\* spectral_flatness runs an stft, which rejects a non-finite buffer
MetricsRaises(x) == HasNaN(x)

\* the metrics dictionary (thousandths; crest factor = peak / (rms + 1e-10))
Metrics(x) ==
    LET rms      == Rms(x)
        peak     == Peak(x)
        flatness == SpectralFlatness(x)
    IN  [rms_level          |-> rms,
         peak_level         |-> peak,
         crest_factor       |-> IF rms = 0 THEN 0 ELSE (1000 * peak) \div rms,
         zero_crossing_rate |-> (1000 * ZeroCrossings(x)) \div Len(x),
         estimated_snr_db   |-> 30 * (1000 - flatness),
         spectral_flatness  |-> flatness]

----------------------------------------------------------------------------
(* The environment: command lines, the file system, the input files *)

Program == "audio_processor.py"

\* "missing.wav" does not exist
InputPaths == {"in.wav", "missing.wav"}

\* output paths: no directory part, an existing directory, a directory
\* still to be created, and a directory below a regular file
OutputPaths == {"out.wav", "outdir/out.wav", "newdir/out.wav", "in.wav/sub/out.wav"}

Modes == {"minimal", "full", "vad", "bandpass"}

\* every command line of at most MaxArgc words; the words after the output
\* path are mode names
CommandLines ==
    {<< Program >>}
    \cup {<< Program, i >> : i \in InputPaths}
    \cup UNION {{<< Program, i, o >> \o extra :
                    i \in InputPaths, o \in OutputPaths, extra \in [1..k -> Modes]} :
                k \in 0..(MaxArgc - 3)}

\* os.path.dirname
Dirname(path) ==
    CASE path = "outdir/out.wav"     -> "outdir"
      [] path = "newdir/out.wav"     -> "newdir"
      [] path = "in.wav/sub/out.wav" -> "in.wav/sub"
      [] OTHER                       -> ""

\* os.makedirs raises when a component of the path is a regular file
MakedirsRaises(dir) == dir = "in.wav/sub"

\* amplitudes of the blocks of an input: silence, quiet, full scale
Levels == {0, 20, 1000}

\* samples after the last whole block (5: a short click, which gives the
\* signal a peak far above its RMS)
TailLengths == {0, 5, 200}

\* sample rates of the input files
FileRates == {8000, 16000, 44100}

Patterns == UNION {[1..n -> Levels] : n \in 0..MaxBlocks}

\* a tone of the highest frequency whose amplitude is pattern[b] in block b
\* and full scale in the tail
Tone(pattern, tail) ==
    AsSeq([i \in 1..((hop_length * Len(pattern)) + tail) |->
        (IF i % 2 = 1 THEN 1 ELSE 0 - 1)
        * (IF FrameOf(i) <= Len(pattern) THEN pattern[FrameOf(i)] ELSE 1000)])

\* a 5-second all-zero buffer at 16 kHz
FiveSecondsOfZeros == Zeros(5 * TARGET_SAMPLE_RATE)

\* what librosa.load may return for "in.wav"
InputFiles ==
    {[sr |-> r, samples |-> Tone(p, t)] : r \in FileRates, p \in Patterns, t \in TailLengths}
    \cup {[sr |-> TARGET_SAMPLE_RATE, samples |-> FiveSecondsOfZeros]}

----------------------------------------------------------------------------
(* State *)

VARIABLES
    argv,         \* sys.argv
    dirs,         \* the directories that exist
    out_file,     \* the file at output_path: [state, data]
    pc,           \* the position in main() / process()
    audio,        \* self.audio (<< >> stands for None too)
    sample_rate,  \* self.sample_rate (0 stands for None)
    duration,     \* self.duration as the fraction num/den (den 0: None)
    result,       \* the record process() returned
    stdout,       \* what was printed on standard output
    stderr,       \* what was printed on the error stream
    exit_status,  \* the exit status (-1 while running)
    uncaught,     \* an exception left main()
    trace,        \* the calls process() has made, in order
    invocations,  \* two AudioProcessor objects side by side: the fields of each
    shared,       \* what the two have in common: the files, the error stream
    validation    \* a call of FileValidator.validate_audio_file: its argument and result

vars == << argv, dirs, out_file, pc, audio, sample_rate, duration, result,
           stdout, stderr, exit_status, uncaught, trace, invocations, shared,
           validation >>

NoResult == [success |-> FALSE, error |-> "<no result>"]

NoFile == [state |-> "absent", data |-> << >>]

\* no second AudioProcessor has been constructed
NoInvocations == << >>

\* the files written, the number of lines on the error stream, the build
NothingShared == [disk |-> << >>, lines |-> 0, rejects |-> FALSE]

Init ==
    /\ argv \in CommandLines
    /\ dirs = {"outdir"}
    /\ out_file = NoFile
    /\ pc = "main"
    /\ audio = << >>
    /\ sample_rate = 0
    /\ duration = [num |-> 0, den |-> 0]
    /\ result = NoResult
    /\ stdout = << >>
    /\ stderr = << >>
    /\ exit_status = 0 - 1
    /\ uncaught = FALSE
    /\ trace = << >>
    /\ invocations = NoInvocations
    /\ shared = NothingShared
    /\ validation = [pc |-> "idle"]

----------------------------------------------------------------------------
(* Output streams and records *)

JsonLine(record) == [kind |-> "json", value |-> record]

TextLine(text) == [kind |-> "text", value |-> [text |-> text]]

FailureRecord(message) == [success |-> FALSE, error |-> message]

SuccessRecord(path, dur, rate, metrics) ==
    [success     |-> TRUE,
     output_path |-> path,
     duration    |-> dur,
     sample_rate |-> rate,
     channels    |-> 1,
     metrics     |-> metrics]

\* os.path.exists
Exists(path) ==
    \/ path = "in.wav"
    \/ path \in dirs
    \/ (Len(argv) >= 3 /\ path = argv[3] /\ out_file.state # "absent")

----------------------------------------------------------------------------
(* main() *)

\* only too few arguments are refused
ArgcTooSmall(args) == Len(args) < EXPECTED_ARGC

\* len(sys.argv) != 3
ArgcIsWrong(args) == Len(args) # EXPECTED_ARGC

\* the existence of the input is not looked at
InputNotChecked(args) == FALSE

\* not os.path.exists(input_path)
InputMissing(args) == ~Exists(args[2])

\* if len(sys.argv) != 3: print the usage record, sys.exit(1)
main_usage_error ==
    /\ pc = "main"
    /\ ArgcIsWrong(argv)
    /\ stdout' = Append(stdout, JsonLine(FailureRecord("Usage: audio_processor.py <input_file> <output_file>")))
    /\ exit_status' = 1
    /\ pc' = "exited"
    /\ UNCHANGED << validation, invocations, shared, argv, dirs, out_file, audio, sample_rate, duration, result,
                    stderr, uncaught, trace >>

\* if not os.path.exists(input_path): print a failure record, sys.exit(1)
main_input_not_found ==
    /\ pc = "main"
    /\ ~ArgcIsWrong(argv)
    /\ InputMissing(argv)
    /\ stdout' = Append(stdout, JsonLine(FailureRecord("Input file not found")))
    /\ exit_status' = 1
    /\ pc' = "exited"
    /\ UNCHANGED << validation, invocations, shared, argv, dirs, out_file, audio, sample_rate, duration, result,
                    stderr, uncaught, trace >>

\* the output directory has to be created
NeedsMakedirs(path) == Dirname(path) # "" /\ ~Exists(Dirname(path))

\* os.makedirs(output_dir, exist_ok=True) raises: nothing catches it
main_makedirs_raises ==
    /\ pc = "main"
    /\ ~ArgcIsWrong(argv)
    /\ ~InputMissing(argv)
    /\ NeedsMakedirs(argv[3])
    /\ MakedirsRaises(Dirname(argv[3]))
    /\ uncaught' = TRUE
    /\ stderr' = Append(stderr, TextLine("Traceback"))
    /\ exit_status' = 1
    /\ pc' = "exited"
    /\ UNCHANGED << validation, invocations, shared, argv, dirs, out_file, audio, sample_rate, duration, result,
                    stdout, trace >>

\* the directory is there or is created; the banner is printed; the
\* AudioProcessor is constructed and process() is entered
main_start_processing ==
    /\ pc = "main"
    /\ ~ArgcIsWrong(argv)
    /\ ~InputMissing(argv)
    /\ NeedsMakedirs(argv[3]) => ~MakedirsRaises(Dirname(argv[3]))
    /\ dirs' = IF NeedsMakedirs(argv[3]) THEN dirs \cup {Dirname(argv[3])} ELSE dirs
    /\ stderr' = Append(stderr, TextLine("Processing"))
    /\ audio' = << >>
    /\ sample_rate' = 0
    /\ duration' = [num |-> 0, den |-> 0]
    /\ pc' = "load_audio"
    /\ UNCHANGED << validation, invocations, shared, argv, out_file, result, stdout, exit_status, uncaught, trace >>

\* result = processor.process() has returned: the summary goes to the error
\* stream, json.dumps(result) to standard output; main returns
main_print_result ==
    /\ pc = "returned"
    /\ stderr' = Append(stderr, TextLine(IF result.success THEN "Processing complete"
                                                           ELSE "Processing failed"))
    /\ stdout' = Append(stdout, JsonLine(result))
    /\ exit_status' = 0
    /\ pc' = "exited"
    /\ UNCHANGED << validation, invocations, shared, argv, dirs, out_file, audio, sample_rate, duration, result,
                    uncaught, trace >>

----------------------------------------------------------------------------
(* AudioProcessor.process() *)

\* the positions inside the try block, in program order
Stages ==
    << "load_audio", "normalize_volume", "remove_silence", "apply_spectral_gating",
       "reduce_noise_stationary", "reduce_noise_non_stationary", "apply_wiener_filter",
       "bandpass_filter", "pre_emphasis", "apply_compression",
       "final_normalize_and_save", "calculate_metrics" >>

\* the argument a call is made with (0: none)
CallArgument(stage) ==
    CASE stage = "reduce_noise_stationary"     -> NOISE_REDUCTION_STRENGTH
      [] stage = "reduce_noise_non_stationary" -> NonStationaryStrength
      [] OTHER                                 -> 0

Call(stage) == << stage, CallArgument(stage) >>

\* the "Step k/7" line printed before a step begins ("": no line)
StepLine(stage) ==
    CASE stage = "load_audio"               -> "Step 1/7"
      [] stage = "normalize_volume"         -> "Step 2/7"
      [] stage = "remove_silence"           -> "Step 3/7"
      [] stage = "apply_spectral_gating"    -> "Step 4/7"
      [] stage = "reduce_noise_stationary"  -> "Step 5/7"
      [] stage = "bandpass_filter"          -> "Step 6/7"
      [] stage = "final_normalize_and_save" -> "Step 7/7"
      [] OTHER                              -> ""

\* the lines a stage prints: its step line, and its check mark when done
StageLines(stage, done) ==
    (IF StepLine(stage) = "" THEN << >> ELSE << TextLine(StepLine(stage)) >>)
    \o (IF done /\ stage # "calculate_metrics" THEN << TextLine(stage) >> ELSE << >>)

\* a stage ran to completion: the signal it leaves, the next position
Completes(stage, next, newAudio) ==
    /\ pc = stage
    /\ audio' = newAudio
    /\ trace' = Append(trace, Call(stage))
    /\ stderr' = stderr \o StageLines(stage, TRUE)
    /\ pc' = next
    /\ UNCHANGED << validation, invocations, shared, argv, dirs, stdout, exit_status, uncaught >>

\* the try block ending before the metrics are calculated
InsideTryUpToSave(stage) == stage # "calculate_metrics"

\* the calls the try block of process() encloses: every one, calculate_metrics
\* included
InsideTry(stage) == stage \in Range(Stages)

\* a stage that raised is run again
RaisesAndRetries(stage) ==
    /\ pc = stage
    /\ trace' = Append(trace, << stage, 0 >>)
    /\ UNCHANGED << validation, invocations, shared, argv, dirs, out_file, pc, audio, sample_rate, duration, result,
                    stdout, stderr, exit_status, uncaught >>

\* except Exception as e: return {'success': False, 'error': str(e)}
Caught(stage) == FailureRecord(stage)

\* a stage raised: the except clause of process() returns the failure
\* record; an exception raised outside the try block would leave process()
\* and main()
Raises(stage) ==
    /\ pc = stage
    /\ trace' = Append(trace, Call(stage))
    /\ stderr' = stderr \o StageLines(stage, FALSE)
    /\ IF InsideTry(stage)
       THEN /\ result' = Caught(stage)
            /\ pc' = "returned"
            /\ UNCHANGED << exit_status, uncaught >>
       ELSE /\ uncaught' = TRUE
            /\ exit_status' = 1
            /\ pc' = "exited"
            /\ UNCHANGED result
    /\ UNCHANGED << validation, invocations, shared, argv, dirs, stdout >>

\* any call made inside the try block may raise (a file that cannot be
\* decoded, a numeric error, no memory left): nothing has been changed yet
stage_raises ==
    /\ pc \in Range(Stages)
    /\ Raises(pc)
    /\ UNCHANGED << out_file, audio, sample_rate, duration >>

\* librosa.load decodes the file at input_path (it raises when there is none)
load_audio ==
    /\ pc = "load_audio"
    /\ Exists(argv[2])
    /\ \E file \in InputFiles :
        LET loaded == LoadedAudio(file)
        IN  /\ Completes("load_audio", "normalize_volume", loaded)
            /\ sample_rate' = LoadedRate(file)
            /\ duration' = DurationOf(loaded, LoadedRate(file))
            /\ UNCHANGED << out_file, result >>

normalize_volume ==
    /\ pc = "normalize_volume"
    /\ ~NormalizeRaises(audio)
    /\ Completes("normalize_volume", "remove_silence", NormalizedVolume(audio))
    /\ UNCHANGED << out_file, sample_rate, duration, result >>

remove_silence ==
    /\ pc = "remove_silence"
    /\ LET shortened == SilenceRemoved(audio, sample_rate)
       IN  /\ Completes("remove_silence", "apply_spectral_gating", shortened)
           /\ duration' = DurationOf(shortened, sample_rate)
    /\ UNCHANGED << out_file, sample_rate, result >>

apply_spectral_gating ==
    /\ pc = "apply_spectral_gating"
    /\ ~StftRaises(audio)
    /\ Completes("apply_spectral_gating", "reduce_noise_stationary", SpectralGated(audio))
    /\ UNCHANGED << out_file, sample_rate, duration, result >>

reduce_noise_stationary ==
    /\ pc = "reduce_noise_stationary"
    /\ Completes("reduce_noise_stationary", "reduce_noise_non_stationary",
                 ReduceNoise(audio, NOISE_REDUCTION_STRENGTH))
    /\ UNCHANGED << out_file, sample_rate, duration, result >>

reduce_noise_non_stationary ==
    /\ pc = "reduce_noise_non_stationary"
    /\ Completes("reduce_noise_non_stationary", "apply_wiener_filter",
                 ReduceNoise(audio, NonStationaryStrength))
    /\ UNCHANGED << out_file, sample_rate, duration, result >>

apply_wiener_filter ==
    /\ pc = "apply_wiener_filter"
    /\ ~StftRaises(audio)
    /\ Completes("apply_wiener_filter", "bandpass_filter", WienerFiltered(audio))
    /\ UNCHANGED << out_file, sample_rate, duration, result >>

\* signal.butter(N=8, Wn=[85, 8000], btype='bandpass', fs=16000): the upper
\* edge is the Nyquist frequency itself
BandEdgeAtNyquist(rate) == 2 * SPEECH_FREQ_MAX >= rate

\* a SciPy that requires 0 < Wn < fs/2 raises ValueError in signal.butter
bandpass_rejects_band ==
    /\ pc = "bandpass_filter"
    /\ BandEdgeAtNyquist(sample_rate)
    /\ Raises("bandpass_filter")
    /\ UNCHANGED << out_file, audio, sample_rate, duration >>

\* a SciPy that accepts the edge designs the filter, and sosfilt applies it
bandpass_filter ==
    /\ pc = "bandpass_filter"
    /\ Completes("bandpass_filter", "pre_emphasis", BandpassFiltered(audio))
    /\ UNCHANGED << out_file, sample_rate, duration, result >>

pre_emphasis_step ==
    /\ pc = "pre_emphasis"
    /\ ~PreEmphasisRaises(audio)
    /\ Completes("pre_emphasis", "apply_compression", PreEmphasized(audio))
    /\ UNCHANGED << out_file, sample_rate, duration, result >>

apply_compression ==
    /\ pc = "apply_compression"
    /\ ~CompressionRaises(audio, sample_rate)
    /\ Completes("apply_compression", "final_normalize_and_save", Compressed(audio))
    /\ UNCHANGED << out_file, sample_rate, duration, result >>

\* the file sf.write leaves: everything, or nothing, or a part
WrittenFile(x) == [state |-> "written", data |-> x]

PartialFile(x) == [state |-> "partial", data |-> SubSeq(x, 1, Len(x) \div 2)]

\* the buffer is written as it is, and normalized and clipped afterwards
save_before_normalize ==
    /\ pc = "final_normalize_and_save"
    /\ ~FinalRaises(audio)
    /\ Completes("final_normalize_and_save", "calculate_metrics", FinalNormalized(audio))
    /\ out_file' = WrittenFile(audio)
    /\ UNCHANGED << sample_rate, duration, result >>

\* peak normalization, clip, sf.write, os.path.getsize, all without error
final_normalize_and_save ==
    /\ pc = "final_normalize_and_save"
    /\ ~FinalRaises(audio)
    /\ LET encoded == FinalNormalized(audio)
       IN  /\ Completes("final_normalize_and_save", "calculate_metrics", encoded)
           /\ out_file' = WrittenFile(encoded)
    /\ UNCHANGED << sample_rate, duration, result >>

\* peak normalization and clip are done; then sf.write raises before it
\* creates the file or while it writes it, or os.path.getsize raises when it
\* is written
final_save_raises ==
    /\ pc = "final_normalize_and_save"
    /\ ~FinalRaises(audio)
    /\ Raises("final_normalize_and_save")
    /\ LET encoded == FinalNormalized(audio)
       IN  /\ audio' = encoded
           /\ out_file' \in {out_file, PartialFile(encoded), WrittenFile(encoded)}
    /\ UNCHANGED << sample_rate, duration >>

\* metrics = self.calculate_metrics(); return the success record
calculate_metrics ==
    /\ pc = "calculate_metrics"
    /\ ~MetricsRaises(audio)
    /\ Completes("calculate_metrics", "returned", audio)
    /\ result' = SuccessRecord(argv[3], duration, sample_rate, Metrics(audio))
    /\ UNCHANGED << out_file, sample_rate, duration >>

----------------------------------------------------------------------------
(* The specification *)

Next ==
    \/ main_usage_error
    \/ main_input_not_found
    \/ main_makedirs_raises
    \/ main_start_processing
    \/ load_audio
    \/ normalize_volume
    \/ remove_silence
    \/ apply_spectral_gating
    \/ reduce_noise_stationary
    \/ reduce_noise_non_stationary
    \/ apply_wiener_filter
    \/ bandpass_rejects_band
    \/ bandpass_filter
    \/ pre_emphasis_step
    \/ apply_compression
    \/ final_normalize_and_save
    \/ final_save_raises
    \/ calculate_metrics
    \/ stage_raises
    \/ main_print_result

Spec == Init /\ [][Next]_vars

----------------------------------------------------------------------------
(* Two AudioProcessor objects side by side.  Each has its own fields       *)
(* (self.audio, self.sample_rate, self.duration); the files and the error  *)
(* stream are common to both.  Their stages are interleaved in any order.  *)
(* Failures that come from the environment are left out here: a stage      *)
(* raises exactly when its input makes it raise.                           *)

Invocations == {1, 2}

\* what librosa.load returns for the inputs of the two
SideInputs ==
    {[sr |-> TARGET_SAMPLE_RATE, samples |-> << >>],
     [sr |-> TARGET_SAMPLE_RATE, samples |-> Tone(<< 1000 >>, 200)],
     [sr |-> TARGET_SAMPLE_RATE, samples |-> Tone(<< 20, 1000 >>, 0)],
     [sr |-> TARGET_SAMPLE_RATE, samples |-> Tone(<< 500, 1000 >>, 0)],
     [sr |-> 8000, samples |-> Tone(<< 1000 >>, 0)],
     [sr |-> TARGET_SAMPLE_RATE, samples |-> Tone(<< 0 >>, 0)]}

InputPathOf(p) == IF p = 1 THEN "in1.wav" ELSE "in2.wav"

OutputPathOf(p) == IF p = 1 THEN "out1.wav" ELSE "out2.wav"

\* AudioProcessor(input_path, output_path): __init__ sets the fields to None
NewInvocation(p) ==
    [pc          |-> "load_audio",
     input_path  |-> InputPathOf(p),
     output_path |-> OutputPathOf(p),
     audio       |-> << >>,
     sample_rate |-> 0,
     duration    |-> [num |-> 0, den |-> 0],
     result      |-> NoResult]

\* the stage after a stage inside process()
StageAfter(stage) ==
    LET k == CHOOSE i \in DOMAIN Stages : Stages[i] = stage
    IN  IF k = Len(Stages) THEN "returned" ELSE Stages[k + 1]

\* whether a stage raises on the buffer it is given (rejects: the SciPy of
\* the build refuses a band edge at the Nyquist frequency)
StageRaises(stage, x, rate, rejects) ==
    CASE stage = "normalize_volume"         -> NormalizeRaises(x)
      [] stage = "apply_spectral_gating"    -> StftRaises(x)
      [] stage = "apply_wiener_filter"      -> StftRaises(x)
      [] stage = "bandpass_filter"          -> rejects /\ BandEdgeAtNyquist(rate)
      [] stage = "pre_emphasis"             -> PreEmphasisRaises(x)
      [] stage = "apply_compression"        -> CompressionRaises(x, rate)
      [] stage = "final_normalize_and_save" -> FinalRaises(x)
      [] stage = "calculate_metrics"        -> MetricsRaises(x)
      [] OTHER                              -> FALSE

\* what each stage computes from the file or from the buffer
StageFunction(stage, file, x, rate) ==
    CASE stage = "load_audio"                  -> LoadedAudio(file)
      [] stage = "normalize_volume"            -> NormalizedVolume(x)
      [] stage = "remove_silence"              -> SilenceRemoved(x, rate)
      [] stage = "apply_spectral_gating"       -> SpectralGated(x)
      [] stage = "reduce_noise_stationary"     -> ReduceNoise(x, NOISE_REDUCTION_STRENGTH)
      [] stage = "reduce_noise_non_stationary" -> ReduceNoise(x, NonStationaryStrength)
      [] stage = "apply_wiener_filter"         -> WienerFiltered(x)
      [] stage = "bandpass_filter"             -> BandpassFiltered(x)
      [] stage = "pre_emphasis"                -> PreEmphasized(x)
      [] stage = "apply_compression"           -> Compressed(x)
      [] stage = "final_normalize_and_save"    -> FinalNormalized(x)
      [] OTHER                                 -> x

\* the Wiener filter does nothing once an earlier invocation has written its
\* file (a noise estimate kept from one invocation to the next)
StageOutputWithHistory(stage, file, x, rate) ==
    IF stage = "apply_wiener_filter" /\ Cardinality(DOMAIN shared.disk) > 2
    THEN x
    ELSE StageFunction(stage, file, x, rate)

\* the buffer a stage leaves in self.audio: a function of the file and of
\* the buffer of its own invocation only
StageOutput(stage, file, x, rate) == StageFunction(stage, file, x, rate)

\* the fields of an AudioProcessor after its next stage has run to its end
AfterStage(r) ==
    LET stage == r.pc
        file  == shared.disk[r.input_path]
        rate  == IF stage = "load_audio" THEN LoadedRate(file) ELSE r.sample_rate
        out   == StageOutput(stage, file, r.audio, rate)
    IN  [r EXCEPT
            !.pc          = StageAfter(stage),
            !.audio       = out,
            !.sample_rate = rate,
            !.duration    = IF stage \in {"load_audio", "remove_silence"}
                            THEN DurationOf(out, rate) ELSE r.duration,
            !.result      = IF stage = "calculate_metrics"
                            THEN SuccessRecord(r.output_path, r.duration, rate, Metrics(out))
                            ELSE r.result]

\* the fields of an AudioProcessor after its next stage has raised
AfterRaise(r) == [r EXCEPT !.pc = "returned", !.result = Caught(r.pc)]

RECURSIVE RunAlone(_, _)
\* process() of an AudioProcessor run from where it is to its end, alone
RunAlone(r, rejects) ==
    IF r.pc = "returned" THEN r
    ELSE IF StageRaises(r.pc, r.audio, r.sample_rate, rejects)
         THEN AfterRaise(r)
         ELSE RunAlone(AfterStage(r), rejects)

\* the file an AudioProcessor leaves at its output path
FileLeftBy(r) ==
    IF r.pc \in {"calculate_metrics", "returned"}
       /\ (r.result.success \/ r.pc = "calculate_metrics" \/ r.result.error = "calculate_metrics")
    THEN WrittenFile(r.audio)
    ELSE NoFile

\* every AudioProcessor reads the fields of the one constructed last
FieldsOfLast(p) == invocations[2]

\* self: the fields a stage of invocation p reads and writes
Self(p) == invocations[p]

\* the files on the disk once invocation p has run its stage
DiskAfter(p, r) ==
    IF r.pc = "calculate_metrics"
    THEN [path \in (DOMAIN shared.disk) \cup {r.output_path} |->
             IF path = r.output_path THEN WrittenFile(r.audio) ELSE shared.disk[path]]
    ELSE shared.disk

Idle ==
    /\ argv = << Program >>
    /\ dirs = {"outdir"}
    /\ out_file = NoFile
    /\ pc = "idle"
    /\ audio = << >>
    /\ sample_rate = 0
    /\ duration = [num |-> 0, den |-> 0]
    /\ result = NoResult
    /\ stdout = << >>
    /\ stderr = << >>
    /\ exit_status = 0 - 1
    /\ uncaught = FALSE
    /\ trace = << >>

InitTwo ==
    /\ Idle
    /\ validation = [pc |-> "idle"]
    /\ invocations = [p \in Invocations |-> NewInvocation(p)]
    /\ \E f1, f2 \in SideInputs, rejects \in BOOLEAN :
          shared = [disk    |-> [path \in {InputPathOf(1), InputPathOf(2)} |->
                                    IF path = InputPathOf(1) THEN f1 ELSE f2],
                    lines   |-> 0,
                    rejects |-> rejects]

\* one stage of invocation p runs to its end
invocation_completes_stage(p) ==
    /\ Self(p).pc \in Range(Stages)
    /\ ~StageRaises(Self(p).pc, Self(p).audio, Self(p).sample_rate, shared.rejects)
    /\ LET r == AfterStage(Self(p))
       IN  /\ invocations' = [invocations EXCEPT ![p] = r]
           /\ shared' = [shared EXCEPT
                            !.disk   = DiskAfter(p, r),
                            !.lines = shared.lines + Len(StageLines(Self(p).pc, TRUE))]
    /\ UNCHANGED << validation, argv, dirs, out_file, pc, audio, sample_rate, duration,
                    result, stdout, stderr, exit_status, uncaught, trace >>

\* one stage of invocation p raises: its process() returns the failure record
invocation_stage_raises(p) ==
    /\ Self(p).pc \in Range(Stages)
    /\ StageRaises(Self(p).pc, Self(p).audio, Self(p).sample_rate, shared.rejects)
    /\ invocations' = [invocations EXCEPT ![p] = AfterRaise(Self(p))]
    /\ shared' = [shared EXCEPT !.lines = shared.lines + Len(StageLines(Self(p).pc, FALSE))]
    /\ UNCHANGED << validation, argv, dirs, out_file, pc, audio, sample_rate, duration,
                    result, stdout, stderr, exit_status, uncaught, trace >>

NextTwo ==
    \E p \in Invocations :
        \/ invocation_completes_stage(p)
        \/ invocation_stage_raises(p)

TwoInvocations == InitTwo /\ [][NextTwo]_vars

----------------------------------------------------------------------------
(* One stage on a given buffer                                             *)
(* process() stands before one of the stages that work on the buffer, and  *)
(* the buffer the earlier stages have left is any of a set of buffers.     *)

\* amplitudes of the blocks of a buffer: silence, quiet, medium, full scale
BlockLevels == {0, 20, 300, 1000}

\* samples after the last whole block
BufferTails == {0, 5}

StageBuffers ==
    {Tone(p, t) : p \in UNION {[1..n -> BlockLevels] : n \in 0..MaxBlocks},
                  t \in BufferTails}

\* the stages that are functions of the buffer alone
CalledStages ==
    {"normalize_volume", "remove_silence", "apply_spectral_gating", "apply_wiener_filter",
     "pre_emphasis", "apply_compression"}

InitStageCall ==
    /\ argv = << Program, "in.wav", "out.wav" >>
    /\ dirs = {"outdir"}
    /\ out_file = NoFile
    /\ pc \in CalledStages
    /\ audio \in StageBuffers
    /\ sample_rate = TARGET_SAMPLE_RATE
    /\ duration = DurationOf(audio, TARGET_SAMPLE_RATE)
    /\ result = NoResult
    /\ stdout = << >>
    /\ stderr = << >>
    /\ exit_status = 0 - 1
    /\ uncaught = FALSE
    /\ trace = << >>
    /\ invocations = NoInvocations
    /\ shared = NothingShared
    /\ validation = [pc |-> "idle"]

\* the stage raises on the buffer it is given
stage_call_raises ==
    /\ pc \in CalledStages
    /\ StageRaises(pc, audio, sample_rate, FALSE)
    /\ Raises(pc)
    /\ UNCHANGED << out_file, audio, sample_rate, duration >>

StageCallNext ==
    \/ normalize_volume
    \/ remove_silence
    \/ apply_spectral_gating
    \/ apply_wiener_filter
    \/ pre_emphasis_step
    \/ apply_compression
    \/ stage_call_raises

StageCalls == InitStageCall /\ [][StageCallNext]_vars

----------------------------------------------------------------------------
(* utils.FileValidator                                                     *)
(* A path is the sequence of its characters, so that splitext and lower    *)
(* are computed and not looked up.                                         *)

AUDIO_EXTENSIONS ==
    { << ".", "m", "p", "3" >>, << ".", "w", "a", "v" >>, << ".", "m", "4", "a" >>,
      << ".", "m", "p", "4" >>, << ".", "o", "g", "g" >>, << ".", "f", "l", "a", "c" >> }

\* 50 * 1024 * 1024
MAX_AUDIO_SIZE == 52428800

MIN_AUDIO_SIZE == 1024

\* str.lower(): the upper-case letters are replaced, everything else is kept
Lower(s) ==
    LET upper == << "A", "B", "C", "D", "E", "F", "G", "H", "I", "J", "K", "L", "M",
                    "N", "O", "P", "Q", "R", "S", "T", "U", "V", "W", "X", "Y", "Z" >>
        lower == << "a", "b", "c", "d", "e", "f", "g", "h", "i", "j", "k", "l", "m",
                    "n", "o", "p", "q", "r", "s", "t", "u", "v", "w", "x", "y", "z" >>
    IN  AsSeq([i \in DOMAIN s |->
                  IF \E k \in DOMAIN upper : upper[k] = s[i]
                  THEN lower[CHOOSE k \in DOMAIN upper : upper[k] = s[i]]
                  ELSE s[i]])

\* os.path.splitext(p): the root and the extension, and os.path.basename(p)
\* as a third. The extension goes from the last dot of the last component on;
\* the dots a component begins with do not start one. (rfind is counted from
\* 1, and is 0 for no occurrence.)
SplitExt(p) ==
    LET rfind(c) == IF \E i \in DOMAIN p : p[i] = c
                    THEN SetMax({i \in DOMAIN p : p[i] = c})
                    ELSE 0
        sepIndex == rfind("/")
        dotIndex == rfind(".")
    IN  IF /\ dotIndex > sepIndex
           /\ \E i \in (sepIndex + 1)..(dotIndex - 1) : p[i] # "."
        THEN << SubSeq(p, 1, dotIndex - 1), SubSeq(p, dotIndex, Len(p)),
                SubSeq(p, sepIndex + 1, Len(p)) >>
        ELSE << p, << >>, SubSeq(p, sepIndex + 1, Len(p)) >>

\* the paths validate_audio_file is called with
ValidatedPaths ==
    { << "a", ".", "w", "a", "v" >>,
      << "a", ".", "W", "A", "V" >>,
      << "d", "/", "b", ".", "M", "p", "3" >>,
      << "c", ".", "o", "g", "g" >>,
      << "n", ".", "t", "x", "t" >>,
      << "a", ".", "w", "a", "v", ".", "b", "a", "k" >>,
      << "w", "a", "v" >>,
      << ".", "w", "a", "v" >>,
      << "d", ".", "w", "a", "v", "/", "a" >>,
      << "a", ".", "w", "a", "v", "." >> }

\* what the file system holds at a path: nothing, a directory, or a regular
\* file of a size around one of the limits, which may be gone by the time its
\* size is read
PathEntries ==
    {[kind |-> "absent", size |-> 0, vanishes |-> FALSE],
     [kind |-> "directory", size |-> 0, vanishes |-> FALSE]}
    \cup [kind     : {"file"},
          size     : {0, MIN_AUDIO_SIZE - 1, MIN_AUDIO_SIZE, MIN_AUDIO_SIZE + 1,
                      MAX_AUDIO_SIZE - 1, MAX_AUDIO_SIZE, MAX_AUDIO_SIZE + 1},
          vanishes : BOOLEAN]

\* file_size < MIN_AUDIO_SIZE, read as "not above the minimum"
NotAboveMinimum(file_size) == file_size <= MIN_AUDIO_SIZE

TooSmall(file_size) == file_size < MIN_AUDIO_SIZE

\* the body of the try block: the record it returns, or the exception
\* os.path.getsize raises
ValidationBody(file_path, entry) ==
    IF entry.kind = "absent"
    THEN [raised |-> FALSE, value |-> [valid |-> FALSE, error |-> "File not found"]]
    ELSE IF entry.kind # "file"
    THEN [raised |-> FALSE, value |-> [valid |-> FALSE, error |-> "Not a file"]]
    ELSE IF entry.vanishes
    THEN [raised |-> TRUE, value |-> "FileNotFoundError"]
    ELSE LET file_size == entry.size
             file_ext  == Lower(SplitExt(file_path)[2])
         IN  [raised |-> FALSE,
              value  |->
                 IF file_ext \notin AUDIO_EXTENSIONS
                 THEN [valid |-> FALSE, error |-> "Unsupported audio format"]
                 ELSE IF TooSmall(file_size)
                 THEN [valid |-> FALSE, error |-> "File too small"]
                 ELSE IF file_size > MAX_AUDIO_SIZE
                 THEN [valid |-> FALSE, error |-> "File too large"]
                 ELSE [valid     |-> TRUE,
                       file_size |-> file_size,
                       file_ext  |-> file_ext,
                       file_name |-> SplitExt(file_path)[3]]]

InitValidation ==
    /\ Idle
    /\ invocations = NoInvocations
    /\ shared = NothingShared
    /\ validation \in [pc : {"called"}, file_path : ValidatedPaths, entry : PathEntries]

\* the call: the try block, and except Exception turning what it raises into
\* a record
validate_audio_file ==
    /\ validation.pc = "called"
    /\ LET body == ValidationBody(validation.file_path, validation.entry)
       IN  validation' =
               [pc        |-> "returned",
                file_path |-> validation.file_path,
                entry     |-> validation.entry,
                result    |-> IF body.raised
                              THEN [valid |-> FALSE, error |-> "Validation error"]
                              ELSE body.value]
    /\ UNCHANGED << invocations, shared, argv, dirs, out_file, pc, audio, sample_rate,
                    duration, result, stdout, stderr, exit_status, uncaught, trace >>

ValidatorCalls == InitValidation /\ [][validate_audio_file]_vars

----------------------------------------------------------------------------
(* Properties *)

\* process() has returned (main may have printed the record since)
Returned == pc \in {"returned", "exited"} /\ trace # << >> /\ ~uncaught

Succeeded == Returned /\ result.success

Failed == Returned /\ ~result.success

IsSuccessRecord(r) ==
    /\ DOMAIN r = {"success", "output_path", "duration", "sample_rate", "channels", "metrics"}
    /\ r.success = TRUE

IsFailureRecord(r) ==
    /\ DOMAIN r = {"success", "error"}
    /\ r.success = FALSE
    /\ r.error \in Range(Stages)

StageNames(calls) == [k \in DOMAIN calls |-> calls[k][1]]

\* C1: process() is the single recovery boundary: whatever the input (a
\* 5-second all-zero buffer and an empty buffer included) and whichever stage
\* raises, no exception leaves process(); once a stage has run, process()
\* ends with a success record or with a failure record whose error is that
\* of the stage that raised, never with anything else.
C1_ProcessNeverRaises ==
    /\ uncaught => trace = << >>
    /\ (pc \in {"returned", "exited"} /\ trace # << >>) =>
          \/ IsSuccessRecord(result)
          \/ (IsFailureRecord(result) /\ result.error = trace[Len(trace)][1])

\* an empty buffer was loaded and volume normalization raised on it:
\* process() has returned the failure record
C1_Witness ==
    /\ pc = "returned"
    /\ IsFailureRecord(result)
    /\ result.error = "normalize_volume"
    /\ sample_rate = TARGET_SAMPLE_RATE
    /\ audio = << >>

\* C2 (as claimed): whenever process() returns a failure record, no output
\* file has been written at output_path.
C2_AllOrNothing == Failed => out_file.state = "absent"

\* the calls of a complete run, with the strengths of the two noise
\* reduction passes
FullPipeline ==
    << << "load_audio", 0 >>, << "normalize_volume", 0 >>, << "remove_silence", 0 >>,
       << "apply_spectral_gating", 0 >>,
       << "reduce_noise_stationary", 800 >>, << "reduce_noise_non_stationary", 560 >>,
       << "apply_wiener_filter", 0 >>,
       << "bandpass_filter", 0 >>, << "pre_emphasis", 0 >>, << "apply_compression", 0 >>,
       << "final_normalize_and_save", 0 >> >>

IsPrefix(a, b) == Len(a) <= Len(b) /\ a = SubSeq(b, 1, Len(a))

\* C3: in every successful run the stages ran one after the other in the
\* order load, normalize, remove-silence, spectral-gate, noise-reduce
\* (stationary 0.8, non-stationary 0.56, Wiener), speech-enhance (bandpass,
\* pre-emphasis, compression), final-normalize-and-save, none skipped or
\* reordered; and at any moment the calls made so far are a beginning of
\* that order.
C3_StageOrder ==
    /\ Succeeded => SubSeq(trace, 1, Len(FullPipeline)) = FullPipeline
    /\ IsPrefix(trace, FullPipeline \o << << "calculate_metrics", 0 >> >>)

\* a run made all twelve calls and main has printed its success record
C3_Witness == pc = "exited" /\ IsSuccessRecord(result) /\ Len(trace) = 12

\* C4: within one invocation every stage runs at most once (no retry), and
\* once a stage has raised no later stage runs: the stage that raised is the
\* last call made, and unless that was the save step or the metrics, nothing
\* has been written.
C4_NoRetryNoLaterStage ==
    /\ \A i, j \in DOMAIN trace : i # j => trace[i][1] # trace[j][1]
    /\ Failed =>
          /\ trace[Len(trace)][1] = result.error
          /\ (result.error \notin {"final_normalize_and_save", "calculate_metrics"}
                => out_file.state = "absent")

\* an early stage (silence removal) raised and the run has ended
C4_Witness ==
    /\ pc = "exited"
    /\ IsFailureRecord(result)
    /\ result.error = "remove_silence"
    /\ Len(trace) = 3

\* C5 (as claimed): in every success record the duration is the number of
\* samples of the signal that was persisted divided by the sample rate.
C5_DurationOfPersistedSignal ==
    Succeeded =>
        (result.duration.num * result.sample_rate)
            = (Len(out_file.data) * result.duration.den)

UsageRecord == FailureRecord("Usage: audio_processor.py <input_file> <output_file>")

\* C6 (as claimed): every invocation of the command ends with exactly one
\* JSON object on standard output and without an uncaught exception, and
\* only diagnostic text on the error stream.
C6_OneJsonObjectAlways ==
    pc = "exited" =>
        /\ ~uncaught
        /\ Len(stdout) = 1
        /\ stdout[1].kind = "json"
        /\ \A k \in DOMAIN stderr : stderr[k].kind = "text"

\* C7 (as claimed): an invocation with the optional third mode argument is
\* accepted: it is not refused as a usage error and a pipeline runs.
C7_ModeArgumentAccepted ==
    (pc = "exited" /\ Len(argv) = 4 /\ argv[2] = "in.wav" /\ ~uncaught) =>
        /\ trace # << >>
        /\ stdout # << JsonLine(UsageRecord) >>

\* C7 (amended): the command accepts exactly <input_path> <output_path>:
\* an invocation with a third (mode) argument is refused with the usage
\* record and exit status 1 before any stage runs, and whenever a stage runs
\* there were exactly two arguments and the calls are those of the one
\* seven-step pipeline.
C7_NoModeArgument ==
    /\ (pc = "exited" /\ Len(argv) > EXPECTED_ARGC) =>
          /\ stdout = << JsonLine(UsageRecord) >>
          /\ exit_status = 1
          /\ trace = << >>
          /\ out_file = NoFile
    /\ Len(argv) > EXPECTED_ARGC => pc \in {"main", "exited"}
    /\ trace # << >> =>
          /\ Len(argv) = EXPECTED_ARGC
          /\ IsPrefix(StageNames(trace), Stages)

\* the command was given the mode "full" and has exited with the usage error
C7_Witness ==
    /\ pc = "exited"
    /\ Len(argv) = 4
    /\ argv[2] = "in.wav"
    /\ argv[4] = "full"
    /\ exit_status = 1
    /\ stdout = << JsonLine(UsageRecord) >>

\* C8: if input_path does not exist, the command prints one failure record
\* on standard output and exits with a non-zero status before any
\* processing: no stage has run, no output directory has been created and
\* nothing has been written.
C8_MissingInput ==
    (Len(argv) = EXPECTED_ARGC /\ argv[2] = "missing.wav") =>
        /\ pc \in {"main", "exited"}
        /\ trace = << >>
        /\ dirs = {"outdir"}
        /\ out_file = NoFile
        /\ pc = "exited" =>
              /\ stdout = << JsonLine(FailureRecord("Input file not found")) >>
              /\ exit_status # 0
              /\ ~uncaught

\* the input is missing and the output directory would have had to be
\* created: the command has exited
C8_Witness ==
    /\ pc = "exited"
    /\ Len(argv) = EXPECTED_ARGC
    /\ argv[2] = "missing.wav"
    /\ argv[3] = "newdir/out.wav"
    /\ exit_status = 1

\* the stages that run after load_audio has completed
AfterLoad == Range(Stages) \ {"load_audio"}

\* C9: every success record has sample_rate 16000 and channels 1, and once
\* load_audio has completed the sample rate is 16000 at every stage and to
\* the end (no stage assigns it), whatever the rate of the input file.
C9_SampleRateFixed ==
    /\ Succeeded => (result.sample_rate = 16000 /\ result.channels = 1)
    /\ sample_rate \in {0, 16000}
    /\ (pc \in AfterLoad \/ (Returned /\ Len(trace) > 1)) => sample_rate = 16000

\* an 8 kHz file of 712 samples, resampled to 1424 samples (more than any
\* 16 kHz input of the model holds), went through the whole pipeline
C9_Witness ==
    /\ pc = "exited"
    /\ IsSuccessRecord(result)
    /\ result.duration.num = 2 * (hop_length + 200)
    /\ result.sample_rate = 16000

\* C10: in every successful run every sample handed to the encoder is
\* finite with |sample| <= 1.0 and the peak is at most 0.891; what was
\* written is the signal after scaling and clipping.
C10_PeakSafety ==
    /\ Succeeded =>
          /\ out_file.state = "written"
          /\ out_file.data = audio
          /\ \A k \in DOMAIN out_file.data :
                /\ out_file.data[k] # NaN
                /\ Abs(out_file.data[k]) <= clip_limit
          /\ Peak(out_file.data) <= final_peak
    /\ pc = "calculate_metrics" => (out_file.state = "written" /\ out_file.data = Clipped(audio))

\* a successful run whose loudest written sample is at -1 dB exactly
C10_Witness ==
    /\ pc = "exited"
    /\ IsSuccessRecord(result)
    /\ out_file.state = "written"
    /\ Peak(out_file.data) = final_peak

\* the file at a path of the common disk
FileAt(path) == IF path \in DOMAIN shared.disk THEN shared.disk[path] ELSE NoFile

\* C11: two invocations on different input and output paths, their stages
\* interleaved in any order, are independent: when the process() of one of
\* them has returned, its result, its fields and the file at its output
\* path are those it produces when it runs alone on its input.
C11_InvocationsIndependent ==
    \A p \in DOMAIN invocations :
        invocations[p].pc = "returned" =>
            LET alone == RunAlone(NewInvocation(p), shared.rejects)
            IN  /\ invocations[p].result = alone.result
                /\ invocations[p].audio = alone.audio
                /\ invocations[p].sample_rate = alone.sample_rate
                /\ invocations[p].duration = alone.duration
                /\ FileAt(OutputPathOf(p)) = FileLeftBy(alone)

\* the first invocation has succeeded and left its file while the second,
\* on another input, is in the middle of its stages
C11_Witness ==
    /\ DOMAIN invocations = Invocations
    /\ invocations[1].pc = "returned"
    /\ invocations[1].result.success
    /\ invocations[2].pc = "apply_wiener_filter"
    /\ shared.disk[InputPathOf(1)] # shared.disk[InputPathOf(2)]
    /\ FileAt(OutputPathOf(1)).state = "written"

\* the mode of an invocation: the word after the output path, "minimal"
\* when there is none
ModeOf(args) == IF Len(args) > EXPECTED_ARGC THEN args[EXPECTED_ARGC + 1] ELSE "minimal"

\* the spectral gate, the noise reducer and the speech enhancer
HeavyStages ==
    {"apply_spectral_gating", "reduce_noise_stationary", "reduce_noise_non_stationary",
     "apply_wiener_filter", "bandpass_filter", "pre_emphasis", "apply_compression"}

\* C12 (as claimed): the stage sequence is selected by mode: in minimal mode
\* (the default) and in vad mode the spectral gate, the noise reducer and the
\* speech enhancer are never executed, and normalization has no RMS target.
C12_SequenceSelectedByMode ==
    ModeOf(argv) \in {"minimal", "vad"} =>
        \A k \in DOMAIN trace : trace[k][1] \notin HeavyStages

\* C12 (amended): the stage sequence is not selected by mode: an invocation
\* that names a mode runs no stage, and every other run goes through the one
\* sequence of process(): normalization has the RMS target 0.1 (or the peak
\* limit 0.95 took effect, or the signal is silent), and every successful
\* run has executed the spectral gate, the noise reducer and the speech
\* enhancer.
C12_OneSequenceForAll ==
    /\ Len(argv) > EXPECTED_ARGC => trace = << >>
    /\ Succeeded => HeavyStages \subseteq Range(StageNames(trace))
    /\ pc = "remove_silence" =>
          \/ Rms(audio) = 0
          \/ Rms(audio) \in 98..100
          \/ (Peak(audio) \in 949..950 /\ Rms(audio) < 100)

\* an invocation without a mode word has succeeded after running the
\* spectral gate
C12_Witness ==
    /\ pc = "exited"
    /\ Len(argv) = EXPECTED_ARGC
    /\ argv[3] = "outdir/out.wav"
    /\ IsSuccessRecord(result)
    /\ trace[4][1] = "apply_spectral_gating"

C14_MetricsOnceFromFinalSignal ==
    /\ \A k \in DOMAIN trace :
          trace[k][1] = "calculate_metrics" =>
              /\ k = Len(trace)
              /\ k > 1
              /\ trace[k - 1][1] = "final_normalize_and_save"
    /\ pc = "calculate_metrics" => audio = out_file.data
    /\ Succeeded =>
          /\ trace[Len(trace)][1] = "calculate_metrics"
          /\ audio = out_file.data
          /\ out_file.data = Clipped(out_file.data)
          /\ result.metrics = Metrics(out_file.data)

\* process() has returned a success record whose peak level is that of the
\* normalized signal
C14_Witness ==
    /\ pc = "returned"
    /\ IsSuccessRecord(result)
    /\ trace[Len(trace)][1] = "calculate_metrics"
    /\ result.metrics.peak_level = final_peak
    /\ result.metrics.rms_level > 0

\* the last call that ran to its end or raised
LastCall == IF trace = << >> THEN << "", 0 >> ELSE trace[Len(trace)]

\* C15: for every magnitude matrix the spectral gate is given, zero
\* magnitudes and zero noise floors included, the gain of every frame is a
\* defined number in [0.0, 1.0].
C15_GateGainBounded ==
    (pc = "apply_spectral_gating" /\ ~StftRaises(audio)) =>
        \A t \in DOMAIN SpectralGains(audio) :
            /\ SpectralGains(audio)[t] # NaN
            /\ SpectralGains(audio)[t] \in 0..1000

\* C16: for every magnitude matrix the Wiener filter is given, zero
\* magnitudes included, the gain of every frame is a defined number in
\* [0.0, 1.0], and the signal the filter leaves has no undefined sample.
C16_WienerGainBounded ==
    /\ (pc = "apply_wiener_filter" /\ ~StftRaises(audio)) =>
          \A t \in DOMAIN WienerGains(audio) :
              /\ WienerGains(audio)[t] # NaN
              /\ WienerGains(audio)[t] \in 0..1000
    /\ (pc = "bandpass_filter" /\ LastCall = Call("apply_wiener_filter")) =>
          ~HasNaN(audio)

\* the Wiener filter has run on a buffer of two all-zero blocks
C16_Witness ==
    /\ pc = "bandpass_filter"
    /\ trace = << Call("apply_wiener_filter") >>
    /\ audio = Zeros(2 * hop_length)

\* C17: normalize_volume has no error condition, and an all-zero signal is
\* left as it is.
C17_NormalizeNeverRaises ==
    pc = "normalize_volume" =>
        /\ ~NormalizeRaises(audio)
        /\ (Peak(audio) = 0 => NormalizedVolume(audio) = audio)

\* C18: normalize_volume of a signal with RMS > 0 scales every sample by
\* 0.1/RMS and then, only when the peak is above 0.95, by 0.95/peak: the peak
\* is at most 0.95 afterwards, and either the RMS is 0.1 or the peak is 0.95
\* and the RMS is below 0.1.  Amplitudes are thousandths: the RMS of the
\* input is known to one thousandth, so a sample scaled by 0.1/RMS lies
\* between its values for that RMS and for the next one.
C18_NormalizeScales ==
    [][(pc = "normalize_volume" /\ pc' = "remove_silence" /\ Rms(audio) > 0) =>
          LET rms  == Rms(audio)
              peak == Peak(audio)
          IN  /\ Len(audio') = Len(audio)
              /\ Peak(audio') <= 950
              /\ \/ /\ (100 * peak) \div (rms + 1) <= 950
                    /\ Rms(audio') \in 98..100
                    /\ \A i \in DOMAIN audio :
                          /\ Abs(audio'[i]) <= Scaled(Abs(audio[i]), 100, rms)
                          /\ Abs(audio'[i]) >= Scaled(Abs(audio[i]), 100, rms + 1) - 1
                          /\ (audio'[i] * audio[i]) >= 0
                 \/ /\ (100 * peak) \div rms > 950
                    /\ Peak(audio') \in 949..950
                    /\ Rms(audio') < 100
                    /\ \A i \in DOMAIN audio :
                          Abs(audio'[i] - Scaled(audio[i], 950, peak)) <= 2
      ]_vars

\* normalize_volume has rescaled a signal to the peak of 0.95, which left
\* its RMS below 0.1
C18_Witness ==
    /\ pc = "remove_silence"
    /\ trace = << Call("normalize_volume") >>
    /\ Peak(audio) \in 949..950
    /\ Rms(audio) \in 1..97

\* C19: normalize_volume applied to a signal it has normalized leaves that
\* signal as it is, to the resolution of the amplitudes; this includes the
\* signals that the first call rescaled to the peak of 0.95.
C19_NormalizeIdempotent ==
    (pc = "remove_silence" /\ LastCall = Call("normalize_volume")) =>
        LET twice == NormalizedVolume(audio)
        IN  /\ Len(twice) = Len(audio)
            /\ \A i \in DOMAIN audio :
                  Abs(twice[i] - audio[i]) <= 1 + (Abs(audio[i]) \div 50)

\* a signal that the first call rescaled to the peak of 0.95 has been
\* normalized, and a second call would rescale it to that peak again
C19_Witness ==
    /\ pc = "remove_silence"
    /\ LastCall = Call("normalize_volume")
    /\ Rms(audio) \in 1..97
    /\ Peak(RmsScaled(audio)) > 950
    /\ Peak(NormalizedVolume(audio)) \in 949..950

\* C20: when remove_silence finds k >= 1 voiced intervals in the trimmed
\* signal, it leaves the samples of each interval in order, 4800 zero samples
\* after every interval but the last, and nothing else: the length is the
\* sum of the interval lengths plus 4800 * (k - 1).
C20_Resegmentation ==
    [][(pc = "remove_silence" /\ pc' = "apply_spectral_gating") =>
          LET trimmed   == Trimmed(audio)
              intervals == SplitIntervals(trimmed)
              k         == Len(intervals)
              length(j) == intervals[j].end - intervals[j].start
              lengths   == [j \in 1..k |-> length(j)]
              first(j)  == Sum(lengths, 1, j - 1) + (4800 * (j - 1))
          IN  k >= 1 =>
                /\ Len(audio') = Sum(lengths, 1, k) + (4800 * (k - 1))
                /\ \A j \in 1..k :
                      /\ \A i \in 1..length(j) :
                            audio'[first(j) + i] = trimmed[intervals[j].start + i]
                      /\ j < k =>
                            \A i \in 1..4800 : audio'[first(j) + length(j) + i] = 0
      ]_vars

\* remove_silence has joined two voiced intervals, of one block and of five
\* samples, with one pause between them
C20_Witness ==
    /\ pc = "apply_spectral_gating"
    /\ trace = << Call("remove_silence") >>
    /\ Len(audio) = hop_length + 4800 + 5
    /\ audio[hop_length] # 0
    /\ audio[hop_length + 1] = 0
    /\ audio[hop_length + 4800] = 0
    /\ audio[hop_length + 4801] # 0

C22_TrimNeverExpands ==
    [][(pc = "remove_silence" /\ pc' = "apply_spectral_gating") =>
          LET trimmed == Trimmed(audio)
          IN  /\ Len(trimmed) <= Len(audio)
              /\ \E first \in 0..(Len(audio) - Len(trimmed)) :
                    \A i \in DOMAIN trimmed : trimmed[i] = audio[first + i]
              /\ Len(trimmed) > 0 => (Len(audio') > 0 /\ audio'[1] = trimmed[1])
      ]_vars

\* remove_silence stands before a buffer whose first block is silent and
\* whose second is not: the trim keeps the second block alone
C22_Witness ==
    /\ pc = "remove_silence"
    /\ Len(audio) = 2 * hop_length
    /\ audio[1] = 0
    /\ Len(Trimmed(audio)) = hop_length
    /\ Trimmed(audio)[1] = audio[hop_length + 1]

\* C23: the noise floor is the 20th percentile of the magnitudes and the
\* threshold twice the floor; the gain of a frame is 1.0 where its magnitude
\* is above the threshold and (magnitude/threshold)^2 otherwise, which is
\* 1.0 at the threshold, never decreases with the magnitude, and is 0 for a
\* non-zero magnitude only below the resolution of the gain.
C23_GateGainRule ==
    (pc = "apply_spectral_gating" /\ ~StftRaises(audio)) =>
        LET mags  == Magnitudes(audio)
            thr   == 2 * Percentile100(mags, 20)
            gains == SpectralGains(audio)
        IN  /\ \A t \in DOMAIN mags :
                  /\ GateThreshold100(mags) = thr
                  /\ gains[t] # NaN
                  /\ (100 * mags[t]) > thr => gains[t] = 1000
                  /\ (100 * mags[t]) = thr => gains[t] = 1000
                  /\ (100 * mags[t]) < thr =>
                        /\ gains[t] \in 0..999
                        /\ gains[t] = (((100000 * mags[t]) \div thr)
                                       * ((100000 * mags[t]) \div thr)) \div 1000
                  /\ (mags[t] > 0 /\ gains[t] = 0) => ((100000 * mags[t]) \div thr) < 32
            /\ \A t, u \in DOMAIN mags : mags[t] <= mags[u] => gains[t] <= gains[u]

\* C24: the spectral gate and the Wiener filter change the magnitude of a
\* frame only: the signal they hand to the inverse transform has the frames
\* of the forward transform, every sample of a frame is a number, keeps its
\* sign, and is scaled as the magnitude of its frame is scaled.
C24_PhasePreserved ==
    [][(\/ (pc = "apply_spectral_gating" /\ pc' = "reduce_noise_stationary")
        \/ (pc = "apply_wiener_filter" /\ pc' = "bandpass_filter")) =>
          /\ Len(audio') = hop_length * NumBlocks(audio)
          /\ \A i \in DOMAIN audio' :
                /\ audio'[i] # NaN
                /\ (audio'[i] * audio[i]) >= 0
                /\ Abs((audio'[i] * Magnitude(audio, FrameOf(i)))
                       - (audio[i] * Magnitude(audio', FrameOf(i))))
                      <= 2 * Magnitude(audio, FrameOf(i))
      ]_vars

\* C25: the signal the spectral gate leaves, and the signal the Wiener filter
\* leaves, differ in length from the signal they were given by at most one
\* hop of 512 samples.
C25_LengthWithinOneHop ==
    [][(\/ (pc = "apply_spectral_gating" /\ pc' = "reduce_noise_stationary")
        \/ (pc = "apply_wiener_filter" /\ pc' = "bandpass_filter")) =>
          /\ Len(audio') <= Len(audio)
          /\ Len(audio) - Len(audio') <= 512
          /\ Len(audio') % 512 = 0
      ]_vars

\* the spectral gate has run on a buffer of one block and five samples
\* (the duration is still that of the buffer it was given) and has left
\* the block
C25_Witness ==
    /\ pc = "reduce_noise_stationary"
    /\ trace = << Call("apply_spectral_gating") >>
    /\ duration.num = hop_length + 5
    /\ Len(audio) = hop_length
    /\ ~HasNaN(audio)

\* C26: the pre-emphasis of a non-empty signal x leaves y of the same length
\* with y[0] = x[0] and y[n] = x[n] - 0.97 * x[n-1], every y[n] computed
\* from x as it was before the step.
C26_PreEmphasis ==
    [][(pc = "pre_emphasis" /\ pc' = "apply_compression") =>
          /\ Len(audio) > 0
          /\ Len(audio') = Len(audio)
          /\ audio'[1] = audio[1]
          /\ \A n \in 2..Len(audio) :
                Abs((100 * audio'[n]) - ((100 * audio[n]) - (97 * audio[n - 1]))) < 100
      ]_vars

\* the pre-emphasis has run on one block of the full-scale tone, whose
\* samples alternate in sign
C26_Witness ==
    /\ pc = "apply_compression"
    /\ trace = << Call("pre_emphasis") >>
    /\ Len(audio) = hop_length
    /\ audio[1] = 1000
    /\ audio[2] = 0 - 1970
    /\ audio[3] = 1970

\* C27: apply_compression leaves a signal of the same length, every sample
\* multiplied by the gain of its smoothed envelope value e: 1.0 when
\* e <= 0.1, and (0.1 + (e - 0.1) / 3.0) / e when e > 0.1.
C27_CompressionGain ==
    [][(pc = "apply_compression" /\ pc' = "final_normalize_and_save") =>
          LET e == Envelope(audio)
          IN  /\ Len(audio') = Len(audio)
              /\ \A i \in DOMAIN audio :
                    IF e[i] <= 100
                    THEN audio'[i] = audio[i]
                    ELSE Abs(((3 * e[i]) * audio'[i]) - ((200 + e[i]) * audio[i]))
                         < 3 * e[i]
      ]_vars

\* apply_compression has run on a quiet block followed by a full-scale
\* block: the quiet samples are as they were, the loud ones at 0.4
C27_Witness ==
    /\ pc = "final_normalize_and_save"
    /\ trace = << Call("apply_compression") >>
    /\ Len(audio) = 2 * hop_length
    /\ audio[1] = 20
    /\ audio[2 * hop_length] = 0 - 400

C29_ExitStatus ==
    pc = "exited" =>
        /\ (exit_status # 0) <=> (ArgcIsWrong(argv) \/ InputMissing(argv))
        /\ trace # << >> =>
              /\ exit_status = 0
              /\ stdout = << JsonLine(result) >>

\* C30: validate_audio_file never raises, and its result is that of the first
\* check that fails, in the order: the path exists, it is a regular file, its
\* lower-cased extension is a supported one, its size is at least 1024 bytes,
\* its size is at most 50 * 1024 * 1024 bytes. The result is valid exactly
\* when all five pass, a size equal to either limit included. (When the file
\* cannot be read for its size any more, the result is a validation error.)
C30_ValidationOrder ==
    validation.pc = "returned" =>
        LET entry     == validation.entry
            value     == validation.result
            exists    == entry.kind # "absent"
            isfile    == entry.kind = "file"
            readable  == isfile /\ ~entry.vanishes
            supported == validation.file_path \in
                             { << "a", ".", "w", "a", "v" >>,
                               << "a", ".", "W", "A", "V" >>,
                               << "d", "/", "b", ".", "M", "p", "3" >>,
                               << "c", ".", "o", "g", "g" >> }
            atleast   == entry.size >= 1024
            atmost    == entry.size <= 52428800
            error(e)  == [valid |-> FALSE, error |-> e]
        IN  /\ DOMAIN value \in {{"valid", "error"}, {"valid", "file_size", "file_ext", "file_name"}}
            /\ value.valid \in BOOLEAN
            /\ ~exists => value = error("File not found")
            /\ exists /\ ~isfile => value = error("Not a file")
            /\ isfile /\ entry.vanishes => value = error("Validation error")
            /\ readable /\ ~supported => value = error("Unsupported audio format")
            /\ readable /\ supported /\ ~atleast => value = error("File too small")
            /\ readable /\ supported /\ atleast /\ ~atmost =>
                  value = error("File too large")
            /\ value.valid <=> (readable /\ supported /\ atleast /\ atmost)
            /\ value.valid => value.file_size = entry.size

\* a file of exactly 1024 bytes with an upper-case extension has been accepted
C30_Witness ==
    /\ validation.pc = "returned"
    /\ validation.file_path = << "a", ".", "W", "A", "V" >>
    /\ validation.entry.kind = "file"
    /\ validation.entry.size = 1024
    /\ validation.result.valid
    /\ validation.result.file_ext = << ".", "w", "a", "v" >>
    /\ validation.result.file_name = validation.file_path

====
